------------------------------ MODULE Spec2Model ------------------------------
(***************************************************************************)
(* Model of go-nk-sdl: the Driver lifecycle (NewDriver, SetUIScale, Init,  *)
(* PreRender, Destroy) and the input translator (NewEventHandler,          *)
(* HandleEvent, expandModBindings).                                        *)
(*                                                                         *)
(* Conventions                                                             *)
(*  - a pointer field of the Driver is a BOOLEAN: TRUE = non-nil;          *)
(*  - an sdl.Keymod bit mask is the set of the names of its bits, so that  *)
(*    a & b is a \cap b, a | b is a \cup b and a &^ b is a \ b;            *)
(*  - a Go map is a function whose DOMAIN is the set of its keys; reading  *)
(*    a missing key yields the zero value (MapGet);                        *)
(*  - a float32 scale is an integer number of thousandths; NaN and +Inf    *)
(*    are two reserved integers.                                           *)
(***************************************************************************)
EXTENDS Integers, Sequences, FiniteSets, TLC

(***************************************************************************)
(* Bounds of the model.                                                    *)
(***************************************************************************)
MaxBindings == 4   \* largest caller-supplied binding table that is enumerated
MaxQueue == 2      \* most events pending in the SDL queue at one time

(***************************************************************************)
(* sdl.Keymod masks (sets of bits).                                        *)
(***************************************************************************)
KMOD_NONE == {}
KMOD_LSHIFT == {"LSHIFT"}
KMOD_RSHIFT == {"RSHIFT"}
KMOD_LCTRL == {"LCTRL"}
KMOD_RCTRL == {"RCTRL"}
KMOD_LALT == {"LALT"}
KMOD_RALT == {"RALT"}
KMOD_LGUI == {"LGUI"}
KMOD_RGUI == {"RGUI"}
KMOD_NUM == {"NUM"}
KMOD_CTRL == KMOD_LCTRL \cup KMOD_RCTRL
KMOD_SHIFT == KMOD_LSHIFT \cup KMOD_RSHIFT
KMOD_ALT == KMOD_LALT \cup KMOD_RALT
KMOD_GUI == KMOD_LGUI \cup KMOD_RGUI

(***************************************************************************)
(* KeyInput, KeyAction and the default binding table.                      *)
(***************************************************************************)
KeyInput(code, mod) == [Code |-> code, Mod |-> mod]

KeyAction(key1, key2) == [Key1 |-> key1, Key2 |-> key2]

KeyNone == "KeyNone"

ZeroAction == KeyAction(KeyNone, KeyNone)

keyBinding(input, action) == [input |-> input, action |-> action]

\* the entries of the DefaultBindings literal, in source order
DefaultBindingsSeq ==
  << keyBinding(KeyInput("K_LSHIFT", KMOD_NONE), KeyAction("KeyShift", KeyNone)),
     keyBinding(KeyInput("K_RSHIFT", KMOD_NONE), KeyAction("KeyShift", KeyNone)),
     keyBinding(KeyInput("K_RETURN", KMOD_NONE), KeyAction("KeyEnter", KeyNone)),
     keyBinding(KeyInput("K_TAB", KMOD_NONE), KeyAction("KeyTab", KeyNone)),
     keyBinding(KeyInput("K_BACKSPACE", KMOD_NONE), KeyAction("KeyBackspace", KeyNone)),
     keyBinding(KeyInput("K_HOME", KMOD_NONE), KeyAction("KeyTextStart", "KeyScrollStart")),
     keyBinding(KeyInput("K_END", KMOD_NONE), KeyAction("KeyTextEnd", "KeyScrollEnd")),
     keyBinding(KeyInput("K_PAGEUP", KMOD_NONE), KeyAction("KeyScrollUp", KeyNone)),
     keyBinding(KeyInput("K_PAGEDOWN", KMOD_NONE), KeyAction(KeyNone, "KeyScrollDown")),
     keyBinding(KeyInput("K_UP", KMOD_NONE), KeyAction("KeyUp", KeyNone)),
     keyBinding(KeyInput("K_DOWN", KMOD_NONE), KeyAction("KeyDown", KeyNone)),
     keyBinding(KeyInput("K_LEFT", KMOD_NONE), KeyAction("KeyLeft", KeyNone)),
     keyBinding(KeyInput("K_RIGHT", KMOD_NONE), KeyAction("KeyRight", KeyNone)),
     keyBinding(KeyInput("K_c", KMOD_CTRL), KeyAction("KeyCopy", KeyNone)),
     keyBinding(KeyInput("K_x", KMOD_CTRL), KeyAction("KeyCut", KeyNone)),
     keyBinding(KeyInput("K_v", KMOD_CTRL), KeyAction("KeyPaste", KeyNone)),
     keyBinding(KeyInput("K_a", KMOD_CTRL), KeyAction("KeyTextLineStart", KeyNone)),
     keyBinding(KeyInput("K_e", KMOD_CTRL), KeyAction("KeyTextLineEnd", KeyNone)),
     keyBinding(KeyInput("K_z", KMOD_CTRL), KeyAction("KeyTextUndo", KeyNone)),
     keyBinding(KeyInput("K_z", KMOD_CTRL \cup KMOD_SHIFT), KeyAction("KeyTextRedo", KeyNone)) >>

SeqInputs(bs) == {bs[i].input : i \in DOMAIN bs}

DefaultBindings ==
  [k \in SeqInputs(DefaultBindingsSeq) |->
     LET i == CHOOSE j \in DOMAIN DefaultBindingsSeq : DefaultBindingsSeq[j].input = k
     IN DefaultBindingsSeq[i].action]

(***************************************************************************)
(* Go map helpers.                                                         *)
(***************************************************************************)
EmptyMap == [k \in {} |-> ZeroAction]

\* m[k] of a Go map: the zero value when k is missing
MapGet(m, k) == IF k \in DOMAIN m THEN m[k] ELSE ZeroAction

\* m[k] = v
MapPut(m, k, v) == [x \in DOMAIN m \cup {k} |-> IF x = k THEN v ELSE m[x]]

(***************************************************************************)
(* expandModBinding: one alias (both = left | right) over a slice.         *)
(***************************************************************************)
RECURSIVE expandModBindingLoop(_, _, _, _, _, _)
expandModBindingLoop(bindings, i, originalLen, both, left, right) ==
  IF i > originalLen THEN bindings
  ELSE LET input == bindings[i].input
           action == bindings[i].action
       IN IF (input.Mod \cap both) # both
          THEN expandModBindingLoop(bindings, i + 1, originalLen, both, left, right)
          ELSE LET leftInput == KeyInput(input.Code, (input.Mod \ both) \cup left)
                   rightInput == KeyInput(input.Code, (input.Mod \ both) \cup right)
                   replaced == [bindings EXCEPT ![i] = keyBinding(leftInput, action)]
               IN expandModBindingLoop(Append(replaced, keyBinding(rightInput, action)),
                                       i + 1, originalLen, both, left, right)

expandModBinding(bindings, both, left, right) ==
  expandModBindingLoop(bindings, 1, Len(bindings), both, left, right)

\* the slice built for one source entry by the four expandModBinding calls
expandOne(input, action) ==
  LET b0 == << keyBinding(input, action) >>
      b1 == expandModBinding(b0, KMOD_CTRL, KMOD_LCTRL, KMOD_RCTRL)
      b2 == expandModBinding(b1, KMOD_SHIFT, KMOD_LSHIFT, KMOD_RSHIFT)
      b3 == expandModBinding(b2, KMOD_ALT, KMOD_LALT, KMOD_RALT)
  IN expandModBinding(b3, KMOD_GUI, KMOD_LGUI, KMOD_RGUI)

\* the guard of the panic in expandModBindings
bindingConflicts(dst, src, binding) ==
  /\ binding.input \in DOMAIN dst
  /\ dst[binding.input] # MapGet(src, binding.input)

\* the inner loop of expandModBindings; st = [dst, panicked]
RECURSIVE writeBindings(_, _, _, _)
writeBindings(st, src, bindings, j) ==
  IF st.panicked \/ j > Len(bindings) THEN st
  ELSE IF bindingConflicts(st.dst, src, bindings[j])
       THEN [st EXCEPT !.panicked = TRUE]
       ELSE writeBindings([st EXCEPT !.dst = MapPut(st.dst, bindings[j].input,
                                                    bindings[j].action)],
                          src, bindings, j + 1)

\* expandModBindings(dst, src); order is the order in which range visits src
RECURSIVE expandModBindingsLoop(_, _, _, _)
expandModBindingsLoop(st, src, order, i) ==
  IF st.panicked \/ i > Len(order) THEN st
  ELSE expandModBindingsLoop(
         writeBindings(st, src, expandOne(order[i], src[order[i]]), 1),
         src, order, i + 1)

expandModBindings(dst, src, order) ==
  expandModBindingsLoop([dst |-> dst, panicked |-> FALSE], src, order, 1)

\* NewEventHandler(bindings): [dst |-> the handler's table, panicked |-> ...]
NewEventHandler(bindings, order) == expandModBindings(EmptyMap, bindings, order)

(***************************************************************************)
(* KeysymInput and EventHandler.HandleEvent.                               *)
(* An event is a record with a field kind; HandleEvent yields the event    *)
(* type, the "used" flag and the calls made on the nk.Context, in order.   *)
(***************************************************************************)
KeysymInput(sym) == KeyInput(sym.Sym, sym.Mod)

HandleResult(etype, used, calls) == [etype |-> etype, used |-> used, calls |-> calls]

InputKeyCall(key, down) == [fn |-> "InputKey", key |-> key, down |-> down]

InputButtonCall(button, x, y, down) ==
  [fn |-> "InputButton", button |-> button, x |-> x, y |-> y, down |-> down]

\* isDoubleClick taking every repeated click for a double click
isDoubleClickRepeated(e) == e.Clicks >= 2
\* if e.Clicks == 2
isDoubleClick(e) == e.Clicks = 2

handleMouseButton(e) ==
  LET down == (e.State = "PRESSED")
      calls ==
        CASE e.Button = "BUTTON_LEFT" ->
               (IF isDoubleClick(e)
                THEN << InputButtonCall("ButtonDouble", e.X, e.Y, down) >>
                ELSE << >>)
               \o << InputButtonCall("ButtonLeft", e.X, e.Y, down) >>
          [] e.Button = "BUTTON_RIGHT" -> << InputButtonCall("ButtonRight", e.X, e.Y, down) >>
          [] e.Button = "BUTTON_MIDDLE" -> << InputButtonCall("ButtonMiddle", e.X, e.Y, down) >>
          [] OTHER -> << >>
  IN HandleResult("EventTypeInputButton", TRUE, calls)

handleKeyboard(bindings, e) ==
  LET down == (e.State = "PRESSED")
      input == KeysymInput(e.Keysym)
      action == MapGet(bindings, input)
  IN IF action.Key1 # KeyNone
     THEN HandleResult("EventTypeInputKey", TRUE,
                       << InputKeyCall(action.Key1, down) >>
                       \o (IF action.Key2 # KeyNone
                           THEN << InputKeyCall(action.Key2, down) >>
                           ELSE << >>))
     ELSE HandleResult("EventTypeInputKey", FALSE, << >>)

HandleEvent(bindings, e) ==
  CASE e.kind = "Quit" -> HandleResult("EventTypeQuit", FALSE, << >>)
    [] e.kind = "MouseMotion" ->
         HandleResult("EventTypeInputMotion", TRUE,
                      << [fn |-> "InputMotion", x |-> e.X, y |-> e.Y] >>)
    [] e.kind = "MouseButton" -> handleMouseButton(e)
    [] e.kind = "MouseWheel" ->
         HandleResult("EventTypeInputScroll", TRUE,
                      << [fn |-> "InputScroll", x |-> e.PreciseX, y |-> e.PreciseY] >>)
    [] e.kind = "Keyboard" -> handleKeyboard(bindings, e)
    [] e.kind = "TextInput" ->
         HandleResult("EventTypeInputUnicode", TRUE,
                      [i \in 1..Len(e.Text) |-> [fn |-> "InputUnicode", r |-> e.Text[i]]])
    [] OTHER -> HandleResult("EventTypeUnhandled", FALSE, << >>)

(***************************************************************************)
(* float32 values: thousandths as integers, with NaN and +Inf.             *)
(***************************************************************************)
NaN == -1000000000

PosInf == 1000000000

IsNaN(x) == x = NaN

\* a < b on float32
FLess(a, b) ==
  /\ ~IsNaN(a)
  /\ ~IsNaN(b)
  /\ a < b

\* a != b on float32 (NaN differs from itself)
FNotEqual(a, b) == IsNaN(a) \/ IsNaN(b) \/ a # b

\* float32(a) / float32(b) for non-negative integer sizes a, b
FDiv(a, b) ==
  IF b = 0 THEN (IF a = 0 THEN NaN ELSE PosInf)
  ELSE (a * 1000) \div b

(***************************************************************************)
(* Driver: fields, Destroy, Init, SetUIScale.                              *)
(***************************************************************************)
PointerFields ==
  {"window", "renderer", "fontTex", "context", "atlas", "font", "largeFont",
   "convertConf", "commands", "elements", "vertices"}

\* resources released through an SDL Destroy method, guarded by a nil check
DestroyedFields == {"window", "renderer", "fontTex"}

\* resources released through an nk Free method, called unconditionally
FreedFields == {"context", "atlas", "convertConf", "commands", "elements", "vertices"}

OwnedResources == DestroyedFields \cup FreedFields

NoFields == [r \in PointerFields |-> FALSE]

\* the steps of Init that can fail, in program order; the last four are the
\* steps of bakeFont
InitSteps ==
  << "InitSDL", "CreateWindow", "CreateRenderer", "GetInfo", "CreateContext",
     "CreateFontAtlas", "CreateFont", "CreateLargeFont", "Bake", "CreateTexture",
     "TextureUpdate", "SetBlendMode" >>

InitOutcomes == {InitSteps[i] : i \in DOMAIN InitSteps} \cup {"none"}

StepIndex(step) ==
  IF step = "none" THEN Len(InitSteps) + 1
  ELSE CHOOSE i \in DOMAIN InitSteps : InitSteps[i] = step

\* the step of Init whose success assigns a non-nil value to the field
AssignedBy(field) ==
  CASE field = "window" -> "CreateWindow"
    [] field = "renderer" -> "CreateRenderer"
    [] field = "context" -> "CreateContext"
    [] field = "atlas" -> "CreateFontAtlas"
    [] field = "font" -> "CreateFont"
    [] field = "largeFont" -> "CreateLargeFont"
    [] field = "fontTex" -> "CreateTexture"
    [] OTHER -> "SetBlendMode"

\* the pointer fields after Init ran until step fail failed ("none": to the end)
InitFields(fail) ==
  [r \in PointerFields |-> StepIndex(AssignedBy(r)) < StepIndex(fail)]

\* whether Init's local variable err is non-nil when Init returns: the
\* renderer-info step declares its own err with :=, every other step assigns
\* the function's variable
InitErrVar(fail) ==
  IF fail = "GetInfo" THEN FALSE ELSE fail # "none"

\* the quirk flag after Init: set when GetInfo succeeded on the metal
\* renderer of an SDL older than 2.0.22
InitClamp(fail, metalOld) == metalOld /\ StepIndex("GetInfo") < StepIndex(fail)

\* the deferred calls of Destroy in the order the defer statements register
\* them; they run last-registered first
DestroyDefers ==
  << "sdl.Quit", "window", "renderer", "fontTex", "context", "atlas",
     "convertConf", "commands", "elements", "vertices" >>

Reverse(s) == [i \in 1..Len(s) |-> s[Len(s) + 1 - i]]

\* DeferRunOrder running the deferred calls in the order they were registered
DeferRunOrderFIFO(defers) == defers
\* deferred calls run last registered first
DeferRunOrder(defers) == Reverse(defers)

ErrOf(r) == "err_" \o r

\* destroyGuard without the nil check
destroyGuardMissing(f, r) == TRUE

\* if d.x != nil
destroyGuard(f, r) == f[r]

\* collectErr without the err == nil test: the latest error wins
collectErrOverwrite(err, err2) == IF err2 # "nil" THEN err2 ELSE err

\* if err2 != nil && err == nil { err = err2 }
collectErr(err, err2) == IF err2 # "nil" /\ err = "nil" THEN err2 ELSE err

LogEntry(res, op, nilHandle, failed) ==
  [res |-> res, op |-> op, nilHandle |-> nilHandle, failed |-> failed]

\* runs the deferred calls; acc = [log, err]; relFail = the Destroy methods
\* that return an error
RECURSIVE runDeferred(_, _, _, _, _)
runDeferred(order, i, f, relFail, acc) ==
  IF i > Len(order) THEN acc
  ELSE LET r == order[i]
           next ==
             CASE r = "sdl.Quit" ->
                    [acc EXCEPT !.log = Append(@, LogEntry(r, "Quit", FALSE, FALSE))]
               [] r \in DestroyedFields ->
                    IF destroyGuard(f, r)
                    THEN [log |-> Append(acc.log,
                                         LogEntry(r, "Destroy", ~f[r], r \in relFail)),
                          err |-> collectErr(acc.err,
                                             IF r \in relFail THEN ErrOf(r) ELSE "nil")]
                    ELSE acc
               [] OTHER ->
                    [acc EXCEPT !.log = Append(@, LogEntry(r, "Free", ~f[r], FALSE))]
       IN runDeferred(order, i + 1, f, relFail, next)

\* Driver.Destroy on a Driver with pointer fields f: [log, err]
DestroyRun(f, relFail) ==
  runDeferred(DeferRunOrder(DestroyDefers), 1, f, relFail, [log |-> << >>, err |-> "nil"])

\* number of release calls the log issues on the (non-nil) resource r
ReleasesIn(log, r) ==
  Cardinality({i \in DOMAIN log : log[i].res = r /\ ~log[i].nilHandle})

QuitsIn(log) == Cardinality({i \in DOMAIN log : log[i].op = "Quit"})

\* scaleOutOfBounds without the NaN test
scaleOutOfBoundsNoNaN(uiScale) == FLess(uiScale, 0) \/ FLess(5000, uiScale)

\* uiScale != uiScale || uiScale < 0 || uiScale > 5
scaleOutOfBounds(uiScale) ==
  FNotEqual(uiScale, uiScale) \/ FLess(uiScale, 0) \/ FLess(5000, uiScale)

(***************************************************************************)
(* PostRender: rectangles, draw commands and the draw loop.                *)
(***************************************************************************)
\* the longest command list enumerated
MaxCmds == 2

Rect(x, y, w, h) == [X |-> x, Y |-> y, W |-> w, H |-> h]

\* sdl.Rect{}: what GetClipRect returns while clipping is disabled
EmptyRect == Rect(0, 0, 0, 0)

\* renderer.GetViewport()
Viewport == Rect(0, 0, 8, 6)

\* the renderer's clipping state
ClipDisabled == [enabled |-> FALSE, rect |-> EmptyRect]
ClipEnabled(rect) == [enabled |-> TRUE, rect |-> rect]

\* renderer.SetClipRect(&rect): a non-nil rectangle enables clipping,
\* whatever its area
SetClipRect(rect) == ClipEnabled(rect)

\* int32(f) for a float32 f held in thousandths: truncation toward zero
truncInt32(f) == IF f >= 0 THEN f \div 1000 ELSE -((-f) \div 1000)

\* clampClip without the caps on W and H
clampClipOriginOnly(clipRect, viewport) ==
  LET a == IF clipRect.X < 0
           THEN [clipRect EXCEPT !.W = @ + clipRect.H, !.X = 0]
           ELSE clipRect
  IN IF a.Y < 0 THEN [a EXCEPT !.H = @ + a.Y, !.Y = 0] ELSE a

\* the body of `if d.clampClipRect`, statement by statement
clampClip(clipRect, viewport) ==
  LET a == IF clipRect.X < 0
           THEN [clipRect EXCEPT !.W = @ + clipRect.H, !.X = 0]
           ELSE clipRect
      b == IF a.Y < 0 THEN [a EXCEPT !.H = @ + a.Y, !.Y = 0] ELSE a
      c == IF b.W > viewport.W THEN [b EXCEPT !.W = viewport.W] ELSE b
  IN IF c.H > viewport.H THEN [c EXCEPT !.H = viewport.H] ELSE c

\* the sdl.Rect the callback builds for one command
commandClipRect(cmd, clamp, viewport) ==
  LET clipRect == Rect(truncInt32(cmd.ClipRect.X), truncInt32(cmd.ClipRect.Y),
                       truncInt32(cmd.ClipRect.W), truncInt32(cmd.ClipRect.H))
  IN IF clamp THEN clampClip(clipRect, viewport) ELSE clipRect

\* nk.DrawCommand: the fields PostRender reads (ClipRect in thousandths)
DrawCommand(n, rect) == [ElemCount |-> n, ClipRect |-> rect]
OutsideRect == Rect(-3500, -2500, 9700, 7200)
InsideRect == Rect(1200, 2000, 3900, 4000)
DrawCommands ==
  {DrawCommand(0, OutsideRect), DrawCommand(3, OutsideRect),
   DrawCommand(3, InsideRect), DrawCommand(6, InsideRect)}
CommandLists == UNION {[1..n -> DrawCommands] : n \in 0..MaxCmds}

\* the renderer calls of the draw loop, as logged
ClipCall(i, rect) ==
  [fn |-> "SetClipRect", cmd |-> i, rect |-> rect, start |-> 0, len |-> 0]
DrawCall(i, start, len) ==
  [fn |-> "RenderGeometry", cmd |-> i, rect |-> EmptyRect, start |-> start, len |-> len]

\* the one renderer call of a PostRender that fails, if any
NoFailure == [step |-> "none", cmd |-> 0]
RenderFailures(commands) ==
  {[step |-> s, cmd |-> 0] : s \in {"none", "SetScale", "Convert", "RestoreClipRect"}}
    \cup {[step |-> s, cmd |-> i] : s \in {"SetClipRect", "RenderGeometry"},
                                    i \in {j \in DOMAIN commands : commands[j].ElemCount # 0}}

\* skipCommand treating an empty command like any other
skipCommandNever(cmd) == FALSE
\* if cmd.ElemCount == 0 { return true }
skipCommand(cmd) == cmd.ElemCount = 0

\* advanceCursor leaving the index slice where it was
advanceCursorStay(cursor, n) == cursor
\* indices = indices[cmd.ElemCount:]
advanceCursor(cursor, n) == cursor + n

\* keepGoing returning true after a failed call
keepGoingAlways(err) == TRUE
\* the callback's result: return false after a failed call, else true
keepGoing(err) == err = "nil"

\* context.DrawForEach(d.commands, callback) from command i on;
\* st = [calls, cursor, clip, err]
RECURSIVE DrawForEach(_, _, _, _, _, _)
DrawForEach(commands, i, st, clamp, viewport, fail) ==
  IF i > Len(commands) THEN st
  ELSE
    LET cmd == commands[i] IN
    IF skipCommand(cmd)
    THEN DrawForEach(commands, i + 1, st, clamp, viewport, fail)
    ELSE
      LET clipRect == commandClipRect(cmd, clamp, viewport)
          clipFails == fail = [step |-> "SetClipRect", cmd |-> i]
          drawFails == fail = [step |-> "RenderGeometry", cmd |-> i]
          afterClip ==
            [st EXCEPT !.calls = Append(@, ClipCall(i, clipRect)),
                       !.clip = IF clipFails THEN @ ELSE SetClipRect(clipRect),
                       !.err = IF clipFails THEN "setting renderer clip rectangle" ELSE @]
          afterDraw ==
            [afterClip EXCEPT
               !.calls = Append(@, DrawCall(i, afterClip.cursor, cmd.ElemCount)),
               !.cursor = IF drawFails THEN @ ELSE advanceCursor(@, cmd.ElemCount),
               !.err = IF drawFails THEN "rendering raw geometry" ELSE @]
      IN IF ~keepGoing(afterClip.err) THEN afterClip
         ELSE IF ~keepGoing(afterDraw.err) THEN afterDraw
         ELSE DrawForEach(commands, i + 1, afterDraw, clamp, viewport, fail)

\* restoreScale putting back 0 x 0
restoreScaleZero(scaleX, scaleY) == << 0, 0 >>
\* the deferred d.renderer.SetScale(scaleX, scaleY)
restoreScale(scaleX, scaleY) == << scaleX, scaleY >>

(***************************************************************************)
(* DefaultSDLDriver.CreateRenderer: choosing the render driver.            *)
(***************************************************************************)
\* the longest list of preferred names and of available render drivers
MaxPreferred == 2
MaxDrivers == 2

DriverNames == {"metal", "opengl", "software"}

\* for i := range infos { if infos[i].Name == driver ... }: the first index
\* (from 0) at or after i whose name is driver, or -1
RECURSIVE indexOfDriver(_, _, _)
indexOfDriver(infos, driver, i) ==
  IF i >= Len(infos) THEN -1
  ELSE IF infos[i + 1] = driver THEN i
  ELSE indexOfDriver(infos, driver, i + 1)

\* preferenceLoop walking the available drivers in the outer loop
RECURSIVE preferenceLoopByDriver(_, _)
preferenceLoopByDriver(drivers, infos) ==
  IF infos = << >> THEN -1
  ELSE IF \E k \in DOMAIN drivers : drivers[k] = Head(infos) THEN 0
  ELSE LET rest == preferenceLoopByDriver(drivers, Tail(infos))
       IN IF rest < 0 THEN -1 ELSE rest + 1

\* preferenceLoop: renderDriver after the two nested loops
RECURSIVE preferenceLoop(_, _)
preferenceLoop(drivers, infos) ==
  IF drivers = << >> THEN -1
  ELSE LET i == indexOfDriver(infos, Head(drivers), 0)
       IN IF i >= 0 THEN i ELSE preferenceLoop(Tail(drivers), infos)

(***************************************************************************)
(* State.                                                                  *)
(***************************************************************************)
VARIABLES
  srcBindings,    \* the binding table handed to NewEventHandler / NewDriver
  eventHandler,   \* [built, panicked, bindings]: the EventHandler
  handled,        \* the latest HandleEvent call: [event, result], or NoCall
  eventListener,  \* Driver.eventListener # nil
  fields,         \* the Driver's pointer fields: TRUE = non-nil
  uiScale,        \* Driver.uiScale
  bgColor,        \* Driver.bgColor
  clampClipRect,  \* Driver.clampClipRect
  released,       \* per owned resource: release calls issued on it so far
  sdlQuits,       \* calls of sdl.Quit so far
  queue,          \* SDL's pending events
  drawColor,      \* the renderer's draw color
  initResult,     \* "none" (Init not called), "ok" or "err"
  initTeardown,   \* Init invoked Destroy before it returned
  destroyed,      \* the caller has called Destroy
  destroyLog,     \* the calls issued by the latest run of Destroy
  destroyResult,  \* the error returned by the latest run of Destroy
  lastSetUIScale, \* the latest SetUIScale call, or NoCall
  pre,            \* the latest PreRender call, or NoCall
  rendScale,      \* the renderer's geometry scale << scaleX, scaleY >>
  clip,           \* the renderer's clipping state: [enabled, rect]
  cmds,           \* the draw commands the context holds for this frame
  post,           \* the latest PostRender call, or NoCall
  preferred,      \* DefaultSDLDriver.Render.Drivers
  available,      \* the names of SDL's render drivers, by index
  created         \* the latest CreateRenderer call, or NoCall

inputVars == << srcBindings, eventHandler, handled >>

lifeVars ==
  << fields, clampClipRect, released, sdlQuits, initResult, initTeardown,
     destroyed, destroyLog, destroyResult >>

scaleVars == << uiScale, lastSetUIScale >>

frameVars == << eventListener, bgColor, queue, drawColor, pre >>

renderVars == << rendScale, clip, cmds, post >>

createVars == << preferred, available, created >>

extVars == << renderVars, createVars >>

vars == << inputVars, lifeVars, scaleVars, frameVars, extVars >>

NoCall == [called |-> FALSE]

\* the renderer before any frame: unit scale, no clipping, nothing to draw
RendererIdle ==
  /\ rendScale = << 1000, 1000 >>
  /\ clip = ClipDisabled
  /\ cmds = << >>
  /\ post = NoCall

\* a DefaultSDLDriver with no preferred render driver
CreateIdle ==
  /\ preferred = << >>
  /\ available = << "opengl", "software" >>
  /\ created = NoCall

Unbuilt == [built |-> FALSE, panicked |-> FALSE, bindings |-> EmptyMap]

(***************************************************************************)
(* Inputs of the model.                                                    *)
(***************************************************************************)
RECURSIVE Perms(_)
Perms(S) ==
  IF S = {} THEN { << >> }
  ELSE UNION { { << x >> \o p : p \in Perms(S \ {x}) } : x \in S }

\* the inputs and actions of the enumerated binding tables
TableInputs ==
  { KeyInput("K_c", KMOD_CTRL), KeyInput("K_c", KMOD_LCTRL), KeyInput("K_c", KMOD_RCTRL),
    KeyInput("K_z", KMOD_CTRL \cup KMOD_SHIFT), KeyInput("K_z", KMOD_CTRL \cup KMOD_LSHIFT),
    KeyInput("K_z", KMOD_LCTRL \cup KMOD_LSHIFT),
    KeyInput("K_z", KMOD_RCTRL \cup KMOD_LSHIFT) }

TableActions == { KeyAction("KeyCopy", KeyNone), KeyAction("KeyCut", KeyNone) }

Tables ==
  UNION { [S -> TableActions] :
            S \in {T \in SUBSET TableInputs : Cardinality(T) <= MaxBindings} }

\* the orders in which range may visit the table.  The entries of
\* DefaultBindings expand to pairwise different inputs, so its result does not
\* depend on the order; it is visited in source order and in reverse.
VisitOrders(src) ==
  IF src = DefaultBindings
  THEN LET o == [i \in DOMAIN DefaultBindingsSeq |-> DefaultBindingsSeq[i].input]
       IN {o, Reverse(o)}
  ELSE Perms(DOMAIN src)

KeyboardEvent(state, sym, mod) ==
  [kind |-> "Keyboard", State |-> state, Keysym |-> [Sym |-> sym, Mod |-> mod]]

EventCodes == {"K_c", "K_z", "K_PAGEDOWN", "K_HOME", "K_q"}

EventMods ==
  { KMOD_NONE, KMOD_LCTRL, KMOD_RCTRL, KMOD_CTRL, KMOD_LCTRL \cup KMOD_LSHIFT,
    KMOD_LCTRL \cup KMOD_NUM }

KeyStates == {"PRESSED", "RELEASED"}

KeyboardEvents ==
  { KeyboardEvent(st, c, m) : st \in KeyStates, c \in EventCodes, m \in EventMods }

MouseButtonEvents ==
  { [kind |-> "MouseButton", X |-> 7, Y |-> 9, State |-> st, Button |-> b, Clicks |-> n] :
      st \in KeyStates,
      b \in {"BUTTON_LEFT", "BUTTON_MIDDLE", "BUTTON_RIGHT", "BUTTON_X1"},
      n \in 1..3 }

TextInputEvents ==
  { [kind |-> "TextInput", Text |-> t] : t \in { << >>, << "a" >>, << "a", "b" >> } }

QuitEvent == [kind |-> "Quit"]

WindowEvent == [kind |-> "Window"]

AllEvents ==
  KeyboardEvents \cup MouseButtonEvents \cup TextInputEvents
  \cup { QuitEvent, WindowEvent,
         [kind |-> "MouseMotion", X |-> 7, Y |-> 9],
         [kind |-> "MouseWheel", PreciseX |-> 0, PreciseY |-> 1] }

\* the events that arrive while the frame loop runs
FrameEvents == { QuitEvent, WindowEvent, KeyboardEvent("PRESSED", "K_HOME", KMOD_NONE) }

\* the table the Driver of the lifecycle model is constructed with
DriverBindings ==
  [k \in { KeyInput("K_HOME", KMOD_NONE), KeyInput("K_PAGEDOWN", KMOD_NONE),
           KeyInput("K_c", KMOD_CTRL) } |-> DefaultBindings[k]]

\* arguments of SetUIScale, and the sizes computeUIScale reads
ScaleArgs == {NaN, PosInf, -1000, -1, 0, 1, 1000, 2000, 5000, 5001}

RenderHeights == {0, 300, 600, 1200, 3600}

WindowHeights == {0, 600}

BGColors == {"zero", "grey"}

DefaultDrawColor == "black"

ListenerRets == {"nil", "ErrQuit", "err_listener"}

RenderCalls == {"GetDrawColor", "SetDrawColor", "Clear", "RestoreDrawColor"}

(***************************************************************************)
(* NewDriver: the state after construction.                                *)
(***************************************************************************)
NewDriverState(listener) ==
  /\ eventListener = listener
  /\ fields = NoFields
  /\ uiScale = 1000
  /\ bgColor = "zero"
  /\ clampClipRect = FALSE
  /\ released = [r \in OwnedResources |-> 0]
  /\ sdlQuits = 0
  /\ queue = << >>
  /\ drawColor = DefaultDrawColor
  /\ initResult = "none"
  /\ initTeardown = FALSE
  /\ destroyed = FALSE
  /\ destroyLog = << >>
  /\ destroyResult = "nil"
  /\ lastSetUIScale = NoCall
  /\ pre = NoCall
  /\ RendererIdle

BuiltHandler(res) == [built |-> TRUE, panicked |-> res.panicked, bindings |-> res.dst]

\* NewDriver(sdlDriver, nkDriver, DriverBindings, eventListener)
NewDriver ==
  /\ srcBindings = DriverBindings
  /\ \E order \in VisitOrders(DriverBindings) :
       eventHandler = BuiltHandler(NewEventHandler(DriverBindings, order))
  /\ handled = NoCall
  /\ \E listener \in BOOLEAN : NewDriverState(listener)
  /\ CreateIdle

(***************************************************************************)
(* Driver.Destroy, Driver.Init, Driver.SetUIScale.                         *)
(***************************************************************************)
\* the effect of one run of Destroy on the resources and on its record
DestroyEffect(f, relFail) ==
  LET run == DestroyRun(f, relFail)
  IN /\ released' = [r \in OwnedResources |-> released[r] + ReleasesIn(run.log, r)]
     /\ sdlQuits' = sdlQuits + QuitsIn(run.log)
     /\ destroyLog' = run.log
     /\ destroyResult' = run.err

Destroy(relFail) ==
  /\ ~destroyed
  /\ \A r \in relFail : fields[r]
  /\ destroyed' = TRUE
  /\ DestroyEffect(fields, relFail)
  /\ UNCHANGED << fields, clampClipRect, initResult, initTeardown >>
  /\ UNCHANGED << inputVars, scaleVars, frameVars, extVars >>

Init(fail, metalOld, relFail) ==
  /\ initResult = "none"
  /\ ~destroyed
  /\ \A r \in relFail : InitErrVar(fail) /\ InitFields(fail)[r]
  /\ metalOld => StepIndex("GetInfo") < StepIndex(fail)
  /\ fields' = InitFields(fail)
  /\ clampClipRect' = InitClamp(fail, metalOld)
  /\ initResult' = IF fail = "none" THEN "ok" ELSE "err"
  /\ initTeardown' = InitErrVar(fail)
  /\ IF InitErrVar(fail)
     THEN DestroyEffect(InitFields(fail), relFail)
     ELSE UNCHANGED << released, sdlQuits, destroyLog, destroyResult >>
  /\ UNCHANGED destroyed
  /\ UNCHANGED << inputVars, scaleVars, frameVars, extVars >>

\* computeUIScale: outcome.err = GetOutputSize fails; otherwise the heights
\* of the render output and of the window (the widths only feed a warning)
computeUIScale(outcome) ==
  IF outcome.err THEN [err |-> TRUE, uiScale |-> uiScale]
  ELSE [err |-> FALSE, uiScale |-> FDiv(outcome.renderH, outcome.windowH)]

NoOutcome == [err |-> TRUE, renderH |-> 0, windowH |-> 0]

ComputeOutcomes ==
  { NoOutcome }
  \cup { [err |-> FALSE, renderH |-> rh, windowH |-> wh] :
           rh \in RenderHeights, wh \in WindowHeights }

ScaleCall(arg, old, err, computed, outcome) ==
  [called |-> TRUE, arg |-> arg, old |-> old, err |-> err, computed |-> computed,
   outcome |-> outcome]

SetUIScale(arg, outcome) ==
  /\ ~destroyed
  /\ (scaleOutOfBounds(arg) \/ arg # 0) => outcome = NoOutcome
  /\ ~outcome.err => fields["renderer"] /\ fields["window"]
  /\ IF scaleOutOfBounds(arg)
     THEN /\ uiScale' = uiScale
          /\ lastSetUIScale' = ScaleCall(arg, uiScale, "out of bounds", FALSE, outcome)
     ELSE IF arg = 0
          THEN LET c == computeUIScale(outcome)
               IN /\ uiScale' = c.uiScale
                  /\ lastSetUIScale' =
                       ScaleCall(arg, uiScale,
                                 IF c.err THEN "computing UI scale" ELSE "nil",
                                 TRUE, outcome)
          ELSE /\ uiScale' = arg
               /\ lastSetUIScale' = ScaleCall(arg, uiScale, "nil", FALSE, outcome)
  /\ UNCHANGED << inputVars, lifeVars, frameVars, extVars >>

(***************************************************************************)
(* Driver.PreRender.                                                       *)
(***************************************************************************)
\* one call of the listener; seen = the calls made on the nk.Context before it
ListenerCall(event, etype, used, ret, seen) ==
  [event |-> event, etype |-> etype, used |-> used, ret |-> ret, seen |-> seen]

\* listenerAborts ignoring the listener's error
listenerAbortsNever(ret) == FALSE

\* else if err != nil, reached when err is not ErrQuit: PreRender returns
listenerAborts(ret) == ret # "nil"

\* the event pump; rets[i] is what the listener returns for the i-th event;
\* acc = [alive, polled, nk, listened, err]
RECURSIVE pumpEvents(_, _, _, _, _, _)
pumpEvents(bindings, listener, events, rets, i, acc) ==
  IF i > Len(events) THEN acc
  ELSE LET h == HandleEvent(bindings, events[i])
           polled == [acc EXCEPT !.polled = i, !.nk = @ \o h.calls]
       IN IF listener
          THEN LET told == [polled EXCEPT !.listened =
                              Append(@, ListenerCall(events[i], h.etype, h.used, rets[i],
                                                    Len(polled.nk)))]
               IN IF rets[i] = "ErrQuit"
                  THEN pumpEvents(bindings, listener, events, rets, i + 1,
                                  [told EXCEPT !.alive = FALSE])
                  ELSE IF listenerAborts(rets[i])
                       THEN [told EXCEPT !.err = rets[i]]
                       ELSE pumpEvents(bindings, listener, events, rets, i + 1, told)
          ELSE IF h.etype = "EventTypeQuit"
               THEN pumpEvents(bindings, listener, events, rets, i + 1,
                               [polled EXCEPT !.alive = FALSE])
               ELSE pumpEvents(bindings, listener, events, rets, i + 1, polled)

\* restoreTarget handing the background color to the deferred SetDrawColor
restoreTargetBG(old, bg) == bg

\* the color the deferred SetDrawColor(oldR, oldG, oldB, oldA) sets
restoreTarget(old, bg) == old

\* the renderer part of PreRender, entered when the pump left alive = TRUE;
\* fails = the renderer calls that return an error
\* yields [err, drawColor, cleared, render, font]
clearRenderer(fails, old, bg, scale) ==
  IF "GetDrawColor" \in fails
  THEN [err |-> "getting renderer draw color", drawColor |-> old, cleared |-> "none",
        render |-> << "GetDrawColor" >>, font |-> "none"]
  ELSE LET setOK == "SetDrawColor" \notin fails
           clearOK == setOK /\ "Clear" \notin fails
           colorSet == IF setOK THEN bg ELSE old
           bodyErr == IF ~setOK THEN "setting renderer draw color"
                      ELSE IF ~clearOK THEN "clearing renderer" ELSE "nil"
           restoreOK == "RestoreDrawColor" \notin fails
       IN [err |-> IF ~restoreOK /\ bodyErr = "nil"
                   THEN "restoring renderer draw color" ELSE bodyErr,
           drawColor |-> IF restoreOK THEN restoreTarget(old, bg) ELSE colorSet,
           cleared |-> IF clearOK THEN colorSet ELSE "none",
           render |-> << "GetDrawColor", "SetDrawColor" >>
                      \o (IF setOK THEN << "Clear" >> ELSE << >>)
                      \o << "RestoreDrawColor" >>,
           font |-> IF ~clearOK THEN "none"
                    ELSE IF FLess(1500, scale) THEN "largeFont" ELSE "font"]

\* the record of one PreRender call; events, old and bg = SDL's queue, the
\* renderer's draw color and the background color at entry; fails = the
\* renderer calls that failed
PreCall(result, polled, nk, listened, cleared, render, fails) ==
  [called |-> TRUE, events |-> queue, old |-> drawColor, bg |-> bgColor,
   result |-> result, polled |-> polled, nk |-> nk, listened |-> listened,
   cleared |-> cleared, render |-> render, fails |-> fails]

PreRender(rets, fails) ==
  /\ initResult = "ok"
  /\ ~destroyed
  /\ ~eventListener => \A i \in DOMAIN rets : rets[i] = "nil"
  /\ LET pump == pumpEvents(eventHandler.bindings, eventListener, queue, rets, 1,
                            [alive |-> TRUE, polled |-> 0,
                             nk |-> << "Clear", "InputBegin" >>,
                             listened |-> << >>, err |-> "nil"])
         rest == SubSeq(queue, pump.polled + 1, Len(queue))
     IN IF pump.err # "nil"
        THEN \* return from inside the loop; the deferred InputEnd runs
             /\ fails = {}
             /\ queue' = rest
             /\ pre' = PreCall(pump.err, pump.polled, Append(pump.nk, "InputEnd"),
                               pump.listened, "none", << >>, {})
             /\ UNCHANGED drawColor
        ELSE IF ~pump.alive
        THEN \* the InputEnd after the loop, then the deferred one
             /\ fails = {}
             /\ queue' = rest
             /\ pre' = PreCall("ErrQuit", pump.polled,
                               pump.nk \o << "InputEnd", "InputEnd" >>,
                               pump.listened, "none", << >>, {})
             /\ UNCHANGED drawColor
        ELSE LET r == clearRenderer(fails, drawColor, bgColor, uiScale)
             IN /\ "GetDrawColor" \in fails => fails = {"GetDrawColor"}
                /\ "SetDrawColor" \in fails => "Clear" \notin fails
                /\ queue' = rest
                /\ drawColor' = r.drawColor
                /\ pre' = PreCall(r.err, pump.polled,
                                  pump.nk \o << "InputEnd" >>
                                  \o (IF r.font = "none" THEN << >>
                                      ELSE << "StyleSetFont_" \o r.font >>)
                                  \o << "InputEnd" >>,
                                  pump.listened, r.cleared, r.render, fails)
  /\ UNCHANGED << eventListener, bgColor >>
  /\ UNCHANGED << inputVars, lifeVars, scaleVars, extVars >>

\* an event arrives in SDL's queue between two frames
PushEvent(e) ==
  /\ initResult = "ok"
  /\ ~destroyed
  /\ Len(queue) < MaxQueue
  /\ queue' = Append(queue, e)
  /\ pre' = NoCall
  /\ UNCHANGED << eventListener, bgColor, drawColor >>
  /\ UNCHANGED << inputVars, lifeVars, scaleVars, extVars >>

SetBGColor(color) ==
  /\ ~destroyed
  /\ bgColor' = color
  /\ UNCHANGED << eventListener, queue, drawColor, pre >>
  /\ UNCHANGED << inputVars, lifeVars, scaleVars, extVars >>

(***************************************************************************)
(* The input translator on its own: NewEventHandler on a table, then       *)
(* HandleEvent on single events.                                           *)
(***************************************************************************)
NewEventHandlerCall(order) ==
  /\ ~eventHandler.built
  /\ eventHandler' = BuiltHandler(NewEventHandler(srcBindings, order))
  /\ UNCHANGED << srcBindings, handled >>
  /\ UNCHANGED << lifeVars, scaleVars, frameVars, extVars >>

HandleEventCall(e) ==
  /\ eventHandler.built
  /\ ~eventHandler.panicked
  /\ handled' = [called |-> TRUE, event |-> e,
                 result |-> HandleEvent(eventHandler.bindings, e)]
  /\ UNCHANGED << srcBindings, eventHandler >>
  /\ UNCHANGED << lifeVars, scaleVars, frameVars, extVars >>

(***************************************************************************)
(* The GUI phase and PostRender.                                           *)
(***************************************************************************)
\* the renderer as PostRender may find it
EntryScales == {<< 1000, 1000 >>, << 3000, 1000 >>}
EntryClips == {ClipDisabled, ClipEnabled(Rect(1, 1, 4, 4))}

\* the application's GUI calls between PreRender and PostRender leave the
\* context with a list of draw commands
RecordCommands(cs) ==
  /\ initResult = "ok"
  /\ cs # cmds
  /\ cmds' = cs
  /\ post' = NoCall
  /\ UNCHANGED << rendScale, clip >>
  /\ UNCHANGED << inputVars, lifeVars, scaleVars, frameVars, createVars >>

\* restore = the argument of the closing SetClipRect call, if it was made
NoRestore == [called |-> FALSE, isNil |-> FALSE, rect |-> EmptyRect]
RestoreOf(rect) == [called |-> TRUE, isNil |-> FALSE, rect |-> rect]

\* scale, clip: the renderer at entry; during: the scale while converting,
\* drawing and presenting; fail, restoreFails: the calls that failed
PostCall(result, calls, cursor, restore, presented, during, fail, restoreFails) ==
  [called |-> TRUE, scale |-> rendScale, clip |-> clip, uiScale |-> uiScale,
   fields |-> fields, result |-> result, calls |-> calls, cursor |-> cursor,
   restore |-> restore, presented |-> presented, during |-> during,
   fail |-> fail, restoreFails |-> restoreFails]

\* func (d *Driver) PostRender() (err error)
PostRender(fail, restoreFails) ==
  /\ initResult = "ok"
  /\ fail \in RenderFailures(cmds)
  /\ restoreFails => fail.step # "SetScale"
  /\ IF fail.step = "SetScale"
     THEN /\ post' = PostCall("setting renderer scale", << >>, 0, NoRestore, FALSE, rendScale, fail, FALSE)
          /\ UNCHANGED << rendScale, clip >>
     ELSE
       LET scaled == << uiScale, uiScale >>
           restored == IF restoreFails THEN scaled
                       ELSE restoreScale(rendScale[1], rendScale[2])
           \* the deferred closure keeps an earlier error
           final(err) == IF restoreFails /\ err = "nil"
                         THEN "restoring renderer scale" ELSE err
       IN
         /\ rendScale' = restored
         /\ IF fail.step = "Convert"
            THEN /\ post' = PostCall(final("converting render commands"), << >>, 0,
                                     NoRestore, FALSE, scaled, fail, restoreFails)
                 /\ UNCHANGED clip
            ELSE
              LET oldClipRect == clip.rect
                  loop == DrawForEach(cmds, 1,
                            [calls |-> << >>, cursor |-> 0, clip |-> clip, err |-> "nil"],
                            clampClipRect, Viewport, fail)
              IN IF loop.err # "nil"
                 THEN /\ post' = PostCall(final(loop.err), loop.calls, loop.cursor,
                                          NoRestore, FALSE, scaled, fail, restoreFails)
                      /\ clip' = loop.clip
                 ELSE IF fail.step = "RestoreClipRect"
                 THEN /\ post' = PostCall(final("restoring clip rect"), loop.calls,
                                          loop.cursor, RestoreOf(oldClipRect), FALSE, scaled,
                                          fail, restoreFails)
                      /\ clip' = loop.clip
                 ELSE /\ post' = PostCall(final("nil"), loop.calls, loop.cursor,
                                          RestoreOf(oldClipRect), TRUE, scaled,
                                          fail, restoreFails)
                      /\ clip' = SetClipRect(oldClipRect)
  /\ UNCHANGED cmds
  /\ UNCHANGED << inputVars, lifeVars, scaleVars, frameVars, createVars >>

(***************************************************************************)
(* DefaultSDLDriver.CreateRenderer.                                        *)
(***************************************************************************)
NameLists(n) == UNION {[1..k -> DriverNames] : k \in 0..n}

\* the SDL calls of CreateRenderer that can fail; info = the index (from 0)
\* whose GetRenderDriverInfo fails
CreateFailures ==
  {[step |-> s, info |-> 0] : s \in {"none", "GetNumRenderDrivers", "CreateRenderer"}}
    \cup {[step |-> "GetRenderDriverInfo", info |-> i] : i \in 0..(Len(available) - 1)}

\* passed = sdl.CreateRenderer was called, with index as the driver index
CreateCall(result, passed, index, renderer) ==
  [called |-> TRUE, fail |-> "none", result |-> result, passed |-> passed,
   index |-> index, renderer |-> renderer]

\* func (d *DefaultSDLDriver) CreateRenderer(window) (*sdl.Renderer, error)
CreateRenderer(fail) ==
  /\ fail \in CreateFailures
  /\ fail.step \in {"GetNumRenderDrivers", "GetRenderDriverInfo"} => Len(preferred) # 0
  /\ LET renderDriver == IF Len(preferred) # 0
                         THEN preferenceLoop(preferred, available) ELSE -1
         sdlCreate == IF fail.step = "CreateRenderer"
                      THEN CreateCall("creating renderer", TRUE, renderDriver, FALSE)
                      ELSE CreateCall("nil", TRUE, renderDriver, TRUE)
         call ==
           IF Len(preferred) # 0
           THEN IF fail.step = "GetNumRenderDrivers"
                THEN CreateCall("getting number of render drivers", FALSE, -1, FALSE)
                ELSE IF fail.step = "GetRenderDriverInfo"
                THEN CreateCall("getting info for render driver", FALSE, -1, FALSE)
                ELSE IF renderDriver < 0
                THEN CreateCall("could not find any preferred render driver",
                                FALSE, -1, FALSE)
                ELSE sdlCreate
           ELSE sdlCreate
     IN created' = [call EXCEPT !.fail = fail.step]
  /\ UNCHANGED << preferred, available >>
  /\ UNCHANGED << inputVars, lifeVars, scaleVars, frameVars, renderVars >>

(***************************************************************************)
(* Specifications.                                                         *)
(***************************************************************************)
\* the lifecycle of a Driver: construction, Init, Destroy
DriverNext ==
  \/ \E fail \in InitOutcomes, metalOld \in BOOLEAN, relFail \in SUBSET DestroyedFields :
       Init(fail, metalOld, relFail)
  \/ \E relFail \in SUBSET DestroyedFields : Destroy(relFail)

Spec == NewDriver /\ [][DriverNext]_vars

\* a Driver whose Init has succeeded: the state Spec reaches by Init("none", ...)
DriverReady ==
  /\ srcBindings = DriverBindings
  /\ \E order \in VisitOrders(DriverBindings) :
       eventHandler = BuiltHandler(NewEventHandler(DriverBindings, order))
  /\ handled = NoCall
  /\ eventListener \in BOOLEAN
  /\ fields = InitFields("none")
  /\ clampClipRect \in BOOLEAN
  /\ bgColor = "zero"
  /\ released = [r \in OwnedResources |-> 0]
  /\ sdlQuits = 0
  /\ queue = << >>
  /\ drawColor = DefaultDrawColor
  /\ initResult = "ok"
  /\ initTeardown = FALSE
  /\ destroyed = FALSE
  /\ destroyLog = << >>
  /\ destroyResult = "nil"
  /\ lastSetUIScale = NoCall
  /\ pre = NoCall
  /\ CreateIdle

\* SetUIScale on a Driver before and after Init
ScaleInit ==
  /\ uiScale = 1000
  /\ \/ NewDriver
     \/ DriverReady /\ RendererIdle

ScaleNext == \E arg \in ScaleArgs, outcome \in ComputeOutcomes : SetUIScale(arg, outcome)

SpecScale == ScaleInit /\ [][ScaleNext]_vars

\* the frame loop of an initialized Driver
FrameInit ==
  /\ uiScale \in {1000, 2000}
  /\ DriverReady
  /\ RendererIdle

FrameNext ==
  \/ \E color \in BGColors : SetBGColor(color)
  \/ \E e \in FrameEvents : PushEvent(e)
  \/ \E rets \in [1..Len(queue) -> ListenerRets], fails \in SUBSET RenderCalls :
       PreRender(rets, fails)

SpecFrame == FrameInit /\ [][FrameNext]_vars

\* the render half of the frame loop: GUI calls, then PostRender
RenderInit ==
  /\ uiScale = 2000
  /\ DriverReady
  /\ eventListener = FALSE
  /\ rendScale \in EntryScales
  /\ clip \in EntryClips
  /\ cmds = << >>
  /\ post = NoCall

RenderNext ==
  \/ \E cs \in CommandLists : RecordCommands(cs)
  \/ \E fail \in RenderFailures(cmds), restoreFails \in BOOLEAN :
       PostRender(fail, restoreFails)

SpecRender == RenderInit /\ [][RenderNext]_vars

\* CreateRenderer over every configured preference list and driver list
CreateInit ==
  /\ preferred \in NameLists(MaxPreferred)
  /\ available \in NameLists(MaxDrivers)
  /\ created = NoCall
  /\ srcBindings = DriverBindings
  /\ eventHandler = Unbuilt
  /\ handled = NoCall
  /\ NewDriverState(FALSE)

CreateNext == \E fail \in CreateFailures : CreateRenderer(fail)

SpecCreate == CreateInit /\ [][CreateNext]_vars

\* the input translator: any enumerated table, or the default one
InputInit ==
  /\ srcBindings \in Tables \cup {DefaultBindings}
  /\ eventHandler = Unbuilt
  /\ handled = NoCall
  /\ NewDriverState(FALSE)
  /\ CreateIdle

InputNext ==
  \/ \E order \in VisitOrders(srcBindings) : NewEventHandlerCall(order)
  \/ \E e \in AllEvents : HandleEventCall(e)

SpecInput == InputInit /\ [][InputNext]_vars

(***************************************************************************)
(* Properties of Init and Destroy (checked under Spec).                    *)
(***************************************************************************)
\* C1: whenever Init has returned an error, it has invoked Destroy before
\* returning, and every resource an earlier step acquired has been released.
ClaimC1 ==
  initResult = "err" =>
    /\ initTeardown
    /\ \A r \in OwnedResources : fields[r] => released[r] >= 1

\* C2: after one Init (successful or failed at any step) followed by one
\* Destroy, every acquired resource has been released exactly once and no
\* other resource has been released at all.
ClaimC2 ==
  (initResult # "none" /\ destroyed) =>
    \A r \in OwnedResources : released[r] = (IF fields[r] THEN 1 ELSE 0)

\* C3: a run of Destroy, whatever subset of the resources is populated,
\* issues no Destroy call on a nil window, renderer or font texture, and
\* issues the Free of the context, the atlas, the convert config and the
\* three buffers on the handle as it is, nil or not.
TheoremC3 ==
  /\ \A i \in DOMAIN destroyLog :
       destroyLog[i].op = "Destroy" => ~destroyLog[i].nilHandle
  /\ destroyLog # << >> =>
       \A r \in FreedFields :
         \E i \in DOMAIN destroyLog :
           destroyLog[i] = LogEntry(r, "Free", ~fields[r], FALSE)

\* Destroy has run on a Driver holding a window but no renderer, font texture
\* or context
WitnessC3 ==
  /\ destroyed
  /\ fields["window"]
  /\ ~fields["renderer"]
  /\ ~fields["fontTex"]
  /\ ~fields["context"]

FailedCalls == {i \in DOMAIN destroyLog : destroyLog[i].failed}

\* C4: a run of Destroy attempts the release of every non-nil window,
\* renderer and font texture, the six frees and the final sdl.Quit whichever
\* releases fail, and returns nil when none failed and otherwise the error of
\* the release that failed first, in the order the releases ran.
TheoremC4 ==
  destroyLog # << >> =>
    /\ \A r \in DestroyedFields :
         fields[r] => \E i \in DOMAIN destroyLog :
                        destroyLog[i].res = r /\ destroyLog[i].op = "Destroy"
    /\ \A r \in FreedFields :
         \E i \in DOMAIN destroyLog : destroyLog[i].res = r /\ destroyLog[i].op = "Free"
    /\ destroyLog[Len(destroyLog)].op = "Quit"
    /\ destroyResult =
         (IF FailedCalls = {} THEN "nil"
          ELSE LET first == CHOOSE i \in FailedCalls : \A j \in FailedCalls : i <= j
               IN ErrOf(destroyLog[first].res))

\* the caller's Destroy saw all three releases fail
WitnessC4 ==
  /\ destroyed
  /\ Cardinality(FailedCalls) = 3
  /\ destroyResult = ErrOf("fontTex")

(***************************************************************************)
(* Properties of PreRender (checked under SpecFrame).                      *)
(***************************************************************************)
\* C5: when the queue PreRender finds holds a quit event and the listener is
\* absent, or present and returning nil for every event, PreRender returns
\* ErrQuit after having polled every event of the queue.
ClaimC5 ==
  ( /\ pre.called
    /\ \E i \in DOMAIN pre.events : pre.events[i].kind = "Quit"
    /\ \A j \in DOMAIN pre.listened : pre.listened[j].ret = "nil" )
  => /\ pre.result = "ErrQuit"
     /\ pre.polled = Len(pre.events)

(***************************************************************************)
(* Properties of the input translator (checked under SpecInput).           *)
(***************************************************************************)
AliasPairs ==
  { {"LCTRL", "RCTRL"}, {"LSHIFT", "RSHIFT"}, {"LALT", "RALT"}, {"LGUI", "RGUI"} }

\* v is k with every combined alias of k replaced by its left or its right bit
IsVariant(v, k) ==
  /\ v.Code = k.Code
  /\ v.Mod \ UNION AliasPairs = k.Mod \ UNION AliasPairs
  /\ \A p \in AliasPairs :
       IF p \subseteq k.Mod THEN Cardinality(v.Mod \cap p) = 1
       ELSE v.Mod \cap p = k.Mod \cap p

VariantsOf(k) == { v \in { KeyInput(k.Code, m) : m \in SUBSET k.Mod } : IsVariant(v, k) }

HasAlias(k) == \E p \in AliasPairs : p \subseteq k.Mod

Returned == eventHandler.built /\ ~eventHandler.panicked

\* C6: in the table of the handler NewEventHandler returns, every left/right
\* combination of every binding with a combined alias maps to that binding's
\* action, and a binding without alias is copied unchanged.
ClaimC6 ==
  Returned =>
    \A k \in DOMAIN srcBindings :
      \A v \in VariantsOf(k) :
        /\ v \in DOMAIN eventHandler.bindings
        /\ eventHandler.bindings[v] = srcBindings[k]

\* C7: NewEventHandler panics on every table that binds a combined-modifier
\* input to one action and one of its left/right variants to another action,
\* in whatever order the entries are visited.
ClaimC7 ==
  ( /\ eventHandler.built
    /\ \E k \in DOMAIN srcBindings :
         /\ HasAlias(k)
         /\ \E v \in VariantsOf(k) \cap DOMAIN srcBindings :
              srcBindings[v] # srcBindings[k] )
  => eventHandler.panicked

\* no two entries of the table that expand to a common input differ in action
NoConflict(src) ==
  \A k1 \in DOMAIN src :
    \A k2 \in DOMAIN src :
      VariantsOf(k1) \cap VariantsOf(k2) # {} => src[k1] = src[k2]

\* C8: on a table in which entries that expand to a common input carry the
\* same action NewEventHandler does not panic, and the handler it returns
\* holds those bindings.
ClaimC8 ==
  (eventHandler.built /\ NoConflict(srcBindings)) =>
    /\ ~eventHandler.panicked
    /\ \A k \in DOMAIN srcBindings :
         \A v \in VariantsOf(k) : MapGet(eventHandler.bindings, v) = srcBindings[k]

\* the key signals a bound action stands for: Key1 then Key2, without KeyNone
SignalsOf(action, down) ==
  (IF action.Key1 # KeyNone THEN << InputKeyCall(action.Key1, down) >> ELSE << >>)
  \o (IF action.Key2 # KeyNone THEN << InputKeyCall(action.Key2, down) >> ELSE << >>)

\* C9: for a keyboard event whose (code, modifiers) is in the handler's
\* table HandleEvent emits the signals of the bound action, Key1 then Key2,
\* and reports the event consumed; for any other keyboard event it emits
\* nothing and reports a key event that was not consumed.
ClaimC9 ==
  (handled.called /\ handled.event.kind = "Keyboard") =>
    LET input == KeyInput(handled.event.Keysym.Sym, handled.event.Keysym.Mod)
        down == handled.event.State = "PRESSED"
    IN /\ handled.result.etype = "EventTypeInputKey"
       /\ IF input \in DOMAIN eventHandler.bindings
          THEN /\ handled.result.calls = SignalsOf(eventHandler.bindings[input], down)
               /\ handled.result.used
          ELSE /\ handled.result.calls = << >>
               /\ ~handled.result.used

(***************************************************************************)
(* Properties of SetUIScale (checked under SpecScale).                     *)
(***************************************************************************)
\* C10: SetUIScale answers NaN, a negative value and a value above 5 with the
\* out-of-bounds error and leaves uiScale as it was; it stores a value in
\* (0, 5] as it is and returns nil; for 0 it does not report out of bounds but
\* runs computeUIScale, which stores the ratio of the output height to the
\* window height, or nothing when it fails.
TheoremC10 ==
  lastSetUIScale.called =>
    LET c == lastSetUIScale
        a == c.arg
    IN /\ (a = NaN \/ a < 0 \/ a > 5000) =>
            (c.err = "out of bounds" /\ uiScale = c.old /\ ~c.computed)
       /\ (a # NaN /\ 0 < a /\ a <= 5000) =>
            (c.err = "nil" /\ uiScale = a /\ ~c.computed)
       /\ a = 0 =>
            /\ c.computed
            /\ c.err \in {"nil", "computing UI scale"}
            /\ c.err # "nil" => uiScale = c.old
            /\ (c.err = "nil" /\ c.outcome.windowH > 0) =>
                 uiScale * c.outcome.windowH = c.outcome.renderH * 1000

\* NaN was rejected after 2 had been stored
WitnessC10 ==
  /\ lastSetUIScale.called
  /\ lastSetUIScale.arg = NaN
  /\ lastSetUIScale.err = "out of bounds"
  /\ uiScale = 2000

(***************************************************************************)
(* Further properties of PreRender (checked under SpecFrame).              *)
(***************************************************************************)
\* the calls HandleEvent makes on the nk.Context for the first n events
RECURSIVE HandlerCallsUpTo(_, _)
HandlerCallsUpTo(events, n) ==
  IF n = 0 THEN 0
  ELSE HandlerCallsUpTo(events, n - 1)
       + Len(HandleEvent(eventHandler.bindings, events[n]).calls)

ListenerStops ==
  {i \in DOMAIN pre.listened : pre.listened[i].ret \notin {"nil", "ErrQuit"}}

\* C16: with a listener installed PreRender calls it once for every event it
\* polls, in queue order, after HandleEvent has processed that event and with
\* the type and the used flag HandleEvent returned; an error other than
\* ErrQuit ends the polling and is returned without the renderer being
\* touched; after ErrQuit the polling goes on and PreRender returns ErrQuit
\* once the queue is empty.
TheoremC16 ==
  (pre.called /\ eventListener) =>
    /\ Len(pre.listened) = pre.polled
    /\ \A i \in DOMAIN pre.listened :
         LET h == HandleEvent(eventHandler.bindings, pre.events[i])
         IN /\ pre.listened[i].event = pre.events[i]
            /\ pre.listened[i].etype = h.etype
            /\ pre.listened[i].used = h.used
            /\ pre.listened[i].seen = 2 + HandlerCallsUpTo(pre.events, i)
    /\ IF ListenerStops # {}
       THEN /\ ListenerStops = {pre.polled}
            /\ pre.result = pre.listened[pre.polled].ret
            /\ pre.cleared = "none"
            /\ pre.render = << >>
            /\ queue = SubSeq(pre.events, pre.polled + 1, Len(pre.events))
       ELSE /\ pre.polled = Len(pre.events)
            /\ queue = << >>
            /\ (\E i \in DOMAIN pre.listened : pre.listened[i].ret = "ErrQuit")
                 => pre.result = "ErrQuit"

\* the listener answered ErrQuit to the first of two events and PreRender
\* still polled the second
WitnessC16 ==
  /\ pre.called
  /\ eventListener
  /\ Len(pre.events) = 2
  /\ pre.polled = 2
  /\ pre.listened[1].ret = "ErrQuit"
  /\ pre.listened[2].ret = "nil"
  /\ pre.result = "ErrQuit"

CountOf(log, call) == Cardinality({i \in DOMAIN log : log[i] = call})

\* C17: every PreRender call issues exactly one InputBegin and exactly one
\* InputEnd on the context, whatever path it returns by.
ClaimC17 ==
  pre.called =>
    /\ CountOf(pre.nk, "InputBegin") = 1
    /\ CountOf(pre.nk, "InputEnd") = 1

ColorSaved == Len(pre.render) >= 2

ClaimC11 ==
  (post.called /\ post.result = "nil") =>
    /\ post.restore.called
    /\ IF post.clip.enabled
       THEN /\ ~post.restore.isNil
            /\ post.restore.rect = post.clip.rect
            /\ clip = post.clip
       ELSE /\ post.restore.isNil
            /\ ~clip.enabled

EmptyCommands == {i \in DOMAIN cmds : cmds[i].ElemCount = 0}

RECURSIVE WithoutEmpty(_)
WithoutEmpty(commands) ==
  IF commands = << >> THEN << >>
  ELSE IF Head(commands).ElemCount = 0 THEN WithoutEmpty(Tail(commands))
  ELSE << Head(commands) >> \o WithoutEmpty(Tail(commands))

\* a logged call without the position of its command in the list
Anonymous(calls) == [i \in DOMAIN calls |-> [calls[i] EXCEPT !.cmd = 0]]

LoopCompleted == post.called /\ post.restore.called

\* C12: a command with element count zero gets no SetClipRect and no
\* RenderGeometry call, and the calls made for the other commands (rectangles
\* and index ranges) are those made for the list without the empty commands.
TheoremC12 ==
  post.called =>
    /\ \A k \in DOMAIN post.calls : post.calls[k].cmd \notin EmptyCommands
    /\ LoopCompleted =>
         LET bare == DrawForEach(WithoutEmpty(cmds), 1,
                       [calls |-> << >>, cursor |-> 0, clip |-> post.clip, err |-> "nil"],
                       clampClipRect, Viewport, NoFailure)
         IN /\ Anonymous(post.calls) = Anonymous(bare.calls)
            /\ post.cursor = bare.cursor

\* an empty command ahead of a drawn one: the only draw starts at index 0
WitnessC12 ==
  /\ LoopCompleted
  /\ Len(cmds) = 2
  /\ cmds[1].ElemCount = 0
  /\ cmds[2].ElemCount # 0
  /\ Len(post.calls) = 2
  /\ post.calls[2].cmd = 2
  /\ post.calls[2].start = 0

LoopFailed == post.called /\ post.fail.step \in {"SetClipRect", "RenderGeometry"}

\* C14: when SetClipRect or RenderGeometry fails for a command, that call is
\* the last renderer call of the loop, the clip rectangle is not restored,
\* the frame is not presented, PostRender returns that error, and the
\* Driver's fields and UI scale are what they were.
TheoremC14 ==
  LoopFailed =>
    /\ post.calls # << >>
    /\ post.calls[Len(post.calls)].fn = post.fail.step
    /\ post.calls[Len(post.calls)].cmd = post.fail.cmd
    /\ \A k \in DOMAIN post.calls : post.calls[k].cmd <= post.fail.cmd
    /\ ~post.presented
    /\ ~post.restore.called
    /\ post.result \in {"setting renderer clip rectangle", "rendering raw geometry"}
    /\ fields = post.fields
    /\ uiScale = post.uiScale
    /\ initResult = "ok"

\* the first of two drawable commands failed to draw
WitnessC14 ==
  /\ LoopFailed
  /\ post.fail = [step |-> "RenderGeometry", cmd |-> 1]
  /\ Len(cmds) >= 2
  /\ cmds[2].ElemCount # 0
  /\ Len(post.calls) = 2

RECURSIVE ElemsBefore(_, _)
ElemsBefore(commands, i) ==
  IF i <= 1 THEN 0 ELSE ElemsBefore(commands, i - 1) + commands[i - 1].ElemCount

DrawCalls == {k \in DOMAIN post.calls : post.calls[k].fn = "RenderGeometry"}

\* C19: the commands are drawn in list order; the draw of a command starts at
\* the sum of the element counts of the commands before it and has the
\* command's element count as length; no command is drawn twice, and when the
\* loop is not aborted every non-empty command is drawn.
TheoremC19 ==
  post.called =>
    /\ \A k \in DrawCalls :
         /\ post.calls[k].start = ElemsBefore(cmds, post.calls[k].cmd)
         /\ post.calls[k].len = cmds[post.calls[k].cmd].ElemCount
    /\ \A k, l \in DrawCalls :
         k < l => /\ post.calls[k].cmd < post.calls[l].cmd
                  /\ post.calls[k].start + post.calls[k].len <= post.calls[l].start
    /\ LoopCompleted =>
         /\ {post.calls[k].cmd : k \in DrawCalls} = DOMAIN cmds \ EmptyCommands
         /\ post.cursor = ElemsBefore(cmds, Len(cmds) + 1)

\* two commands of different sizes drawn one after the other
WitnessC19 ==
  /\ LoopCompleted
  /\ Len(cmds) = 2
  /\ cmds[1].ElemCount = 6
  /\ cmds[2].ElemCount = 3
  /\ \E k \in DrawCalls : post.calls[k].start = 6 /\ post.calls[k].len = 3

ClipCalls == {k \in DOMAIN post.calls : post.calls[k].fn = "SetClipRect"}

\* n is f (in thousandths) with its fraction dropped
IsTruncated(f, n) ==
  IF f >= 0 THEN n * 1000 <= f /\ f < n * 1000 + 1000
  ELSE n * 1000 >= f /\ f > n * 1000 - 1000

\* C20: with clampClipRect set every rectangle passed to SetClipRect has
\* X >= 0, Y >= 0, W <= viewport width and H <= viewport height; without it
\* the rectangle holds the command's coordinates truncated to integers.
TheoremC20 ==
  post.called =>
    \A k \in ClipCalls :
      LET rect == post.calls[k].rect
          from == cmds[post.calls[k].cmd].ClipRect
      IN IF clampClipRect
         THEN /\ rect.X >= 0
              /\ rect.Y >= 0
              /\ rect.W <= Viewport.W
              /\ rect.H <= Viewport.H
         ELSE /\ IsTruncated(from.X, rect.X)
              /\ IsTruncated(from.Y, rect.Y)
              /\ IsTruncated(from.W, rect.W)
              /\ IsTruncated(from.H, rect.H)

\* a rectangle with negative origin and oversize extent went through the
\* clamp
WitnessC20 ==
  /\ post.called
  /\ clampClipRect
  /\ \E k \in ClipCalls :
       /\ cmds[post.calls[k].cmd].ClipRect.X < 0
       /\ cmds[post.calls[k].cmd].ClipRect.Y < 0
       /\ truncInt32(cmds[post.calls[k].cmd].ClipRect.W) > Viewport.W
       /\ post.calls[k].rect.X = 0
       /\ post.calls[k].rect.Y = 0
       /\ post.calls[k].rect.W = Viewport.W

(***************************************************************************)
(* Properties of CreateRenderer (checked under SpecCreate).                *)
(***************************************************************************)
AvailableNames == {available[i] : i \in DOMAIN available}

\* the positions in the preference list whose name is available at all
Matches == {k \in DOMAIN preferred : preferred[k] \in AvailableNames}

Earliest(S) == CHOOSE k \in S : \A l \in S : k <= l

Enumerated ==
  created.called /\ created.fail \notin {"GetNumRenderDrivers", "GetRenderDriverInfo"}

\* C15: with a non-empty preference list CreateRenderer passes the index of
\* an available driver named like the earliest preferred name that is
\* available at all; it returns an error without calling sdl.CreateRenderer
\* when no preferred name is available; with an empty list it passes -1.
TheoremC15 ==
  Enumerated =>
    IF preferred = << >>
    THEN created.passed /\ created.index = -1
    ELSE IF Matches = {}
    THEN /\ ~created.passed
         /\ ~created.renderer
         /\ created.result = "could not find any preferred render driver"
    ELSE /\ created.passed
         /\ created.index \in 0..(Len(available) - 1)
         /\ available[created.index + 1] = preferred[Earliest(Matches)]
         /\ \A i \in 1..created.index : available[i] # preferred[Earliest(Matches)]
         /\ created.renderer <=> created.result = "nil"

\* the second driver enumerated is the first one preferred, and both
\* preferred names are available
WitnessC15 ==
  /\ created.called
  /\ created.result = "nil"
  /\ Len(preferred) = 2
  /\ Len(available) = 2
  /\ preferred[1] = available[2]
  /\ preferred[2] = available[1]
  /\ preferred[1] # preferred[2]
  /\ created.index = 1

(***************************************************************************)
(* The order of the releases in Destroy (checked under Spec).              *)
(***************************************************************************)
Ran == destroyLog # << >>

OpsAt(op) == {i \in DOMAIN destroyLog : destroyLog[i].op = op}

\* C21 as stated: Destroy releases window, renderer and font texture before
\* it frees the context, the atlas, the convert config and the buffers, and
\* shuts SDL down after all of them.
ClaimC21 ==
  Ran =>
    /\ \A i \in OpsAt("Destroy"), j \in OpsAt("Free") : i < j
    /\ \A q \in OpsAt("Quit"), i \in DOMAIN destroyLog : i <= q

\* the position of the release of resource r in the log, 0 when there is none
PositionOf(r) ==
  IF \E i \in DOMAIN destroyLog : destroyLog[i].res = r
  THEN CHOOSE i \in DOMAIN destroyLog : destroyLog[i].res = r
  ELSE 0

Before(r1, r2) ==
  (PositionOf(r1) # 0 /\ PositionOf(r2) # 0) => PositionOf(r1) < PositionOf(r2)

\* C21 amended: Destroy frees the three buffers, the convert config, the
\* atlas and the context first (vertices, elements, commands, convertConf,
\* atlas, context), then destroys the font texture, the renderer and the
\* window in that order, and shuts SDL down last.
TheoremC21 ==
  Ran =>
    /\ \A i \in OpsAt("Free"), j \in OpsAt("Destroy") : i < j
    /\ \A q \in OpsAt("Quit"), i \in DOMAIN destroyLog : i <= q
    /\ OpsAt("Quit") = {Len(destroyLog)}
    /\ [i \in 1..6 |-> destroyLog[i].res] =
         << "vertices", "elements", "commands", "convertConf", "atlas", "context" >>
    /\ Before("fontTex", "renderer")
    /\ Before("renderer", "window")
    /\ Before("fontTex", "window")

\* Destroy on a fully initialised Driver: ten calls, the window destroyed
\* right before sdl.Quit
WitnessC21 ==
  /\ destroyed
  /\ Len(destroyLog) = 10
  /\ destroyLog[7].res = "fontTex"
  /\ destroyLog[8].res = "renderer"
  /\ destroyLog[9].res = "window"
  /\ destroyLog[10].op = "Quit"

(***************************************************************************)
(* Further properties of HandleEvent (checked under SpecInput).            *)
(***************************************************************************)
ButtonHandled == handled.called /\ handled.event.kind = "MouseButton"

ButtonsSignalled ==
  {handled.result.calls[i].button : i \in DOMAIN handled.result.calls}

\* C22: for a mouse button event the double-click signal is emitted only for
\* the left button with click count 2, ahead of the left-button signal and
\* with the same position and state; right and middle emit exactly one
\* signal, for their own button.
TheoremC22 ==
  ButtonHandled =>
    LET e == handled.event
        calls == handled.result.calls
        down == (e.State = "PRESSED")
        signal(b) == InputButtonCall(b, e.X, e.Y, down)
    IN /\ "ButtonDouble" \in ButtonsSignalled
            <=> (e.Button = "BUTTON_LEFT" /\ e.Clicks = 2)
       /\ (e.Button = "BUTTON_LEFT" /\ e.Clicks = 2)
            => calls = << signal("ButtonDouble"), signal("ButtonLeft") >>
       /\ (e.Button = "BUTTON_LEFT" /\ e.Clicks # 2)
            => calls = << signal("ButtonLeft") >>
       /\ e.Button = "BUTTON_RIGHT" => calls = << signal("ButtonRight") >>
       /\ e.Button = "BUTTON_MIDDLE" => calls = << signal("ButtonMiddle") >>

\* a released left button with click count 2
WitnessC22 ==
  /\ ButtonHandled
  /\ handled.event.Button = "BUTTON_LEFT"
  /\ handled.event.Clicks = 2
  /\ handled.event.State = "RELEASED"
  /\ Len(handled.result.calls) = 2
  /\ handled.result.calls[1].button = "ButtonDouble"
  /\ ~handled.result.calls[1].down

(***************************************************************************)
(* Further properties of PostRender (checked under SpecRender).            *)
(***************************************************************************)
\* the sdl.Rect built from command i before any clamping
Unclamped(i) == commandClipRect(cmds[i], FALSE, Viewport)

Min(a, b) == IF a <= b THEN a ELSE b

\* r with the part at negative coordinates cut off: both far edges stay
CutNegative(r) ==
  Rect(IF r.X < 0 THEN 0 ELSE r.X,
       IF r.Y < 0 THEN 0 ELSE r.Y,
       IF r.X < 0 THEN r.W + r.X ELSE r.W,
       IF r.Y < 0 THEN r.H + r.Y ELSE r.H)

Contains(outer, inner) ==
  /\ outer.X <= inner.X
  /\ outer.Y <= inner.Y
  /\ inner.X + inner.W <= outer.X + outer.W
  /\ inner.Y + inner.H <= outer.Y + outer.H

\* C23: under the quirk flag the rectangle passed to SetClipRect is the
\* command's rectangle with the part at negative coordinates cut off (X = 0
\* and width W + X when X < 0, Y = 0 and height H + Y when Y < 0), capped to
\* the viewport size, and so lies inside the command's rectangle.
ClaimC23 ==
  (post.called /\ clampClipRect) =>
    \A k \in ClipCalls :
      LET rect == post.calls[k].rect
          orig == Unclamped(post.calls[k].cmd)
          cut == CutNegative(orig)
      IN /\ rect.X = cut.X
         /\ rect.Y = cut.Y
         /\ rect.W = Min(cut.W, Viewport.W)
         /\ rect.H = Min(cut.H, Viewport.H)
         /\ Contains(orig, rect)

\* C25: whenever PostRender returns, also with an error from a SetClipRect or
\* RenderGeometry call part-way through the commands, the renderer's clip
\* state is the one it had at entry.
ClaimC25 ==
  post.called => clip = post.clip

(***************************************************************************)
(* The stored UI scale (checked under SpecScale).                          *)
(***************************************************************************)
\* C24: in every state reached from NewDriver by SetUIScale calls the stored
\* UI scale is a number greater than 0 and at most 5.
ClaimC24 ==
  /\ ~IsNaN(uiScale)
  /\ FLess(0, uiScale)
  /\ ~FLess(5000, uiScale)

(***************************************************************************)
(* What HandleEvent reports (checked under SpecInput).                     *)
(***************************************************************************)
\* C26: HandleEvent reports an event as used only when it made at least one
\* input call on the context for it; a mouse button other than left, right
\* and middle and a text input with empty text are not reported as used.
ClaimC26 ==
  handled.called =>
    (handled.result.used => Len(handled.result.calls) >= 1)

\* the modifier bits that say which keys are held, without the lock states
HeldBits(mod) == mod \ KMOD_NUM

\* the held modifiers satisfy the binding input k: for a combined alias at
\* least one of its two keys is held, every other modifier is as in k
Holds(k, mod) ==
  /\ HeldBits(mod) \ UNION AliasPairs = k.Mod \ UNION AliasPairs
  /\ \A p \in AliasPairs :
       IF p \subseteq k.Mod THEN HeldBits(mod) \cap p # {}
       ELSE HeldBits(mod) \cap p = k.Mod \cap p

\* the bindings of the source table a keyboard event satisfies
BindingsHeld(e) ==
  {k \in DOMAIN srcBindings : k.Code = e.Keysym.Sym /\ Holds(k, e.Keysym.Mod)}

\* C27: a binding with a combined modifier fires for a key event of its key
\* when the left key, the right key or both are held, and lock-state bits in
\* the event's mask do not stop it from matching.
ClaimC27 ==
  (Returned /\ handled.called /\ handled.event.kind = "Keyboard") =>
    \A k \in BindingsHeld(handled.event) :
      (BindingsHeld(handled.event) = {k} /\ HasAlias(k) /\ srcBindings[k].Key1 # KeyNone)
        => /\ handled.result.used
           /\ handled.result.calls # << >>
           /\ handled.result.calls[1] =
                InputKeyCall(srcBindings[k].Key1, handled.event.State = "PRESSED")

=============================================================================
